---- MODULE Spec2Model ----
(***************************************************************************)
(* Model of docx/oxml/table.py: the custom element classes for tables      *)
(* (CT_Tbl, CT_Row, CT_Tc, CT_TcPr, CT_TblPr, CT_TblWidth, CT_VMerge).     *)
(*                                                                         *)
(* An XML element is a record [tag, id, attrs, kids]: attrs is a function  *)
(* from the names of the attributes that are present to their values, kids *)
(* is the sequence of child elements in document order.  id stands for the *)
(* identity of the element object (used for rows and cells, 0 elsewhere).  *)
(***************************************************************************)
EXTENDS Integers, Sequences, FiniteSets, TLC

VARIABLES
    tc,       \* a <w:tc> element under edit
    tbl,      \* a <w:tbl> element under edit
    nextId,   \* identity given to the next row or cell element created
    op,       \* name of the last operation called
    arg,      \* the argument of the last operation
    raised    \* TRUE iff the last operation raised an exception

vars == <<tc, tbl, nextId, op, arg, raised>>

(***************************************************************************)
(* Bounds                                                                  *)
(***************************************************************************)
MaxTwips == 2      \* widths written range over -1..MaxTwips twips (+ offsets)
MaxContent == 2    \* content elements (w:p, w:tbl) appended to a cell
MaxRows == 3       \* rows in the table
MaxCells == 2      \* cells per row
MaxId == 7         \* element identities handed out

(***************************************************************************)
(* The XML tree engine (lxml) and the xmlchemy child descriptors           *)
(***************************************************************************)
NoAttrs == [a \in {} |-> 0]

Elm(tag, attrs, kids) == [tag |-> tag, id |-> 0, attrs |-> attrs, kids |-> kids]

OxmlElement(tag) == Elm(tag, NoAttrs, <<>>)

HasAttr(e, name) == name \in DOMAIN e.attrs

SetAttr(e, name, value) ==
    [e EXCEPT !.attrs = [n \in (DOMAIN e.attrs) \cup {name} |->
                            IF n = name THEN value ELSE e.attrs[n]]]

DelAttr(e, name) ==
    [e EXCEPT !.attrs = [n \in (DOMAIN e.attrs) \ {name} |-> e.attrs[n]]]

\* index of the first child with the given tag, 0 when there is none
find(e, tag) ==
    IF \E i \in 1..Len(e.kids) : e.kids[i].tag = tag
    THEN CHOOSE i \in 1..Len(e.kids) :
            /\ e.kids[i].tag = tag
            /\ \A j \in 1..(i-1) : e.kids[j].tag # tag
    ELSE 0

HasTag(k, tag) == k.tag = tag

findall(e, tag) == SelectSeq(e.kids, LAMBDA k : HasTag(k, tag))

InsertAt(s, i, x) == SubSeq(s, 1, i-1) \o <<x>> \o SubSeq(s, i, Len(s))

RemoveAt(s, i) == SubSeq(s, 1, i-1) \o SubSeq(s, i+1, Len(s))

ReplaceKid(e, i, k) == [e EXCEPT !.kids[i] = k]

append(e, k) == [e EXCEPT !.kids = Append(e.kids, k)]

\* BaseOxmlElement.first_child_found_in: the tag names are tried in the
\* order given, the first one that has a matching child decides
RECURSIVE first_child_found_in(_, _)
first_child_found_in(e, tagnames) ==
    IF tagnames = <<>> THEN 0
    ELSE IF find(e, Head(tagnames)) # 0 THEN find(e, Head(tagnames))
    ELSE first_child_found_in(e, Tail(tagnames))

\* BaseOxmlElement.insert_element_before: addprevious on the successor found,
\* append when none of the successors is present
insert_element_before(e, elm, tagnames) ==
    LET successor == first_child_found_in(e, tagnames)
    IN  IF successor # 0
        THEN [e EXCEPT !.kids = InsertAt(e.kids, successor, elm)]
        ELSE append(e, elm)

\* BaseOxmlElement.remove_all
remove_all(e, tag) ==
    [e EXCEPT !.kids = SelectSeq(e.kids, LAMBDA k : ~HasTag(k, tag))]

\* ZeroOrOne.get_or_add_x: the child is created (without attributes) and
\* inserted before its first successor only when it is absent
get_or_add(e, tag, successors) ==
    IF find(e, tag) # 0 THEN e
    ELSE insert_element_before(e, OxmlElement(tag), successors)

(***************************************************************************)
(* Length conversion (docx.shared) and the simple types                    *)
(***************************************************************************)
EMUS_PER_TWIP == 635

\* Emu(value).twips == int(round(emu / 635.0)); 635 is odd, so no integer
\* is exactly halfway and the rounding mode plays no part
Emu_twips(emu) == (2 * emu + EMUS_PER_TWIP) \div (2 * EMUS_PER_TWIP)

\* Twips(n) == Emu(n * 635)
Twips(n) == n * EMUS_PER_TWIP

\* A value handed to a width write: an EMU length, or one of the two values
\* the write rejects: None (Emu(None) raises TypeError) and a length whose
\* twips do not fit XsdInt (validate raises ValueError)
EmuValue(n) == [kind |-> "emu", n |-> n, s |-> ""]
NoneValue == [kind |-> "None", n |-> 0, s |-> ""]
HugeValue == [kind |-> "huge", n |-> 0, s |-> ""]
NoArg == [kind |-> "-", n |-> 0, s |-> ""]

Rejected(value) == value.kind # "emu"

\* results of a read: None, a value, or an exception
None == [k |-> "None", v |-> 0]
Raises == [k |-> "raises", v |-> 0]
Val(v) == [k |-> "value", v |-> v]

(***************************************************************************)
(* CT_TblWidth                                                             *)
(***************************************************************************)
\* a RequiredAttribute read raises InvalidXmlError when the attribute is absent
CT_TblWidth_width(e) ==
    IF ~HasAttr(e, "type") THEN Raises
    ELSE IF e.attrs.type # "dxa" THEN None
    ELSE IF ~HasAttr(e, "w") THEN Raises
    ELSE Val(Twips(e.attrs.w))

\* the write without line 191: the type attribute is left as it is
CT_TblWidth_width_set_keeps_type(e, value) ==
    IF Rejected(value)
    THEN [elm |-> e, raised |-> TRUE]
    ELSE [elm |-> SetAttr(e, "w", Emu_twips(value.n)), raised |-> FALSE]

\* self.type = 'dxa' is executed first; self.w = Emu(value).twips raises on a
\* rejected value after the type has been written
CT_TblWidth_width_set(e, value) ==
    LET typed == SetAttr(e, "type", "dxa")
    IN  IF Rejected(value)
        THEN [elm |-> typed, raised |-> TRUE]
        ELSE [elm |-> SetAttr(typed, "w", Emu_twips(value.n)), raised |-> FALSE]

(***************************************************************************)
(* CT_VMerge                                                               *)
(***************************************************************************)
\* the attribute declared without its default
CT_VMerge_val_no_default(e) ==
    IF HasAttr(e, "val") THEN e.attrs.val ELSE "None"

\* val = OptionalAttribute('w:val', ST_Merge, default=ST_Merge.CONTINUE):
\* reading an absent attribute gives the default
CT_VMerge_val(e) ==
    IF HasAttr(e, "val") THEN e.attrs.val ELSE "continue"

\* assigning None or the default removes the attribute
CT_VMerge_val_set(e, value) ==
    IF value \in {"None", "continue"} THEN DelAttr(e, "val")
    ELSE SetAttr(e, "val", value)

(***************************************************************************)
(* CT_TcPr                                                                 *)
(***************************************************************************)
tag_seq ==
    << "w:cnfStyle", "w:tcW", "w:gridSpan", "w:hMerge", "w:vMerge",
       "w:tcBorders", "w:shd", "w:noWrap", "w:tcMar", "w:textDirection",
       "w:tcFitText", "w:vAlign", "w:hideMark", "w:headers", "w:cellIns",
       "w:cellDel", "w:cellMerge", "w:tcPrChange" >>

\* successors=_tag_seq[3:], which leaves w:gridSpan out
tcW_successors_short == SubSeq(tag_seq, 4, Len(tag_seq))

\* Python's _tag_seq[n:] is SubSeq(tag_seq, n+1, Len(tag_seq))
tcW_successors == SubSeq(tag_seq, 3, Len(tag_seq))

gridSpan_successors == SubSeq(tag_seq, 4, Len(tag_seq))

vMerge_successors == SubSeq(tag_seq, 6, Len(tag_seq))

get_or_add_tcW(tcPr) == get_or_add(tcPr, "w:tcW", tcW_successors)

get_or_add_gridSpan(tcPr) == get_or_add(tcPr, "w:gridSpan", gridSpan_successors)

get_or_add_vMerge(tcPr) == get_or_add(tcPr, "w:vMerge", vMerge_successors)

\* the decimal strings a w:gridSpan/@w:val holds, and int() of them
DecimalStr == <<"1", "2", "3">>

ST_DecimalNumber_from_xml(s) == CHOOSE n \in 1..Len(DecimalStr) : DecimalStr[n] = s

\* CT_DecimalNumber.val is a RequiredAttribute
CT_TcPr_grid_span(tcPr) ==
    LET i == find(tcPr, "w:gridSpan")
    IN  IF i = 0 THEN Val(1)
        ELSE IF ~HasAttr(tcPr.kids[i], "val") THEN Raises
        ELSE Val(ST_DecimalNumber_from_xml(tcPr.kids[i].attrs.val))

CT_TcPr_vMerge_val(tcPr) ==
    LET i == find(tcPr, "w:vMerge")
    IN  IF i = 0 THEN "None" ELSE CT_VMerge_val(tcPr.kids[i])

CT_TcPr_width(tcPr) ==
    LET i == find(tcPr, "w:tcW")
    IN  IF i = 0 THEN None ELSE CT_TblWidth_width(tcPr.kids[i])

CT_TcPr_width_set(tcPr, value) ==
    LET added == get_or_add_tcW(tcPr)
        i == find(added, "w:tcW")
        r == CT_TblWidth_width_set(added.kids[i], value)
    IN  [elm |-> ReplaceKid(added, i, r.elm), raised |-> r.raised]

(***************************************************************************)
(* CT_Tbl.new                                                              *)
(***************************************************************************)
CT_Tbl_new ==
    Elm("w:tbl", NoAttrs,
        << Elm("w:tblPr", NoAttrs,
               << Elm("w:tblW", [type |-> "auto", w |-> 0], <<>>) >>),
           Elm("w:tblGrid", NoAttrs, <<>>) >>)

(***************************************************************************)
(* CT_Tc                                                                   *)
(***************************************************************************)
CT_Tc_new == Elm("w:tc", NoAttrs, << OxmlElement("w:p") >>)

\* the generic insertion of a child that declares no successors
insert_tcPr_append(e, tcPr) == insert_element_before(e, tcPr, <<>>)

\* _insert_tcPr: self.insert(0, tcPr)
insert_tcPr(e, tcPr) == [e EXCEPT !.kids = InsertAt(e.kids, 1, tcPr)]

get_or_add_tcPr(e) ==
    IF find(e, "w:tcPr") # 0 THEN e
    ELSE insert_tcPr(e, OxmlElement("w:tcPr"))

\* self[:] = [] : the w:tcPr is dropped with the content
clear_content_all(e) == [e EXCEPT !.kids = <<>>]

clear_content(e) ==
    LET i == find(e, "w:tcPr")
        new_children == IF i # 0 THEN << e.kids[i] >> ELSE <<>>
    IN  [e EXCEPT !.kids = new_children]

CT_Tc_grid_span(e) ==
    LET i == find(e, "w:tcPr")
    IN  IF i = 0 THEN Val(1) ELSE CT_TcPr_grid_span(e.kids[i])

CT_Tc_vMerge(e) ==
    LET i == find(e, "w:tcPr")
    IN  IF i = 0 THEN "None" ELSE CT_TcPr_vMerge_val(e.kids[i])

CT_Tc_width(e) ==
    LET i == find(e, "w:tcPr")
    IN  IF i = 0 THEN None ELSE CT_TcPr_width(e.kids[i])

CT_Tc_width_set(e, value) ==
    LET added == get_or_add_tcPr(e)
        i == find(added, "w:tcPr")
        r == CT_TcPr_width_set(added.kids[i], value)
    IN  [elm |-> ReplaceKid(added, i, r.elm), raised |-> r.raised]

\* p = OneOrMore('w:p') and tbl = OneOrMore('w:tbl') declare no successors:
\* add_p() and add_tbl() append
add_p(e) == insert_element_before(e, OxmlElement("w:p"), <<>>)

add_tbl(e) == insert_element_before(e, CT_Tbl_new, <<>>)

\* the content elements of a cell: every child that is not the w:tcPr
Content(e) == SelectSeq(e.kids, LAMBDA k : ~HasTag(k, "w:tcPr"))

(***************************************************************************)
(* Cells as they are read from a document                                  *)
(***************************************************************************)
\* the w:tcW elements a parsed cell may carry: one of each width type
ParsedTcW ==
    { Elm("w:tcW", [type |-> "auto", w |-> 0], <<>>),
      Elm("w:tcW", [type |-> "dxa", w |-> 1], <<>>),
      Elm("w:tcW", [type |-> "nil", w |-> 0], <<>>),
      Elm("w:tcW", [type |-> "pct", w |-> 5000], <<>>) }

ParsedGridSpan == { Elm("w:gridSpan", [val |-> "2"], <<>>) }

ParsedVMerge ==
    { Elm("w:vMerge", NoAttrs, <<>>),
      Elm("w:vMerge", [val |-> "restart"], <<>>),
      Elm("w:vMerge", [val |-> "continue"], <<>>) }

Opt(S) == { <<>> } \cup { <<x>> : x \in S }

ParsedTcPr ==
    { Elm("w:tcPr", NoAttrs, a \o b \o c) :
        a \in Opt(ParsedTcW), b \in Opt(ParsedGridSpan), c \in Opt(ParsedVMerge) }

ParsedCells ==
    { CT_Tc_new } \cup { Elm("w:tc", NoAttrs, << pr, OxmlElement("w:p") >>) : pr \in ParsedTcPr }

\* children of w:tcPr this module declares no accessor for
OtherTags == { "w:cnfStyle", "w:hMerge", "w:tcBorders", "w:shd" }

TagSet(S) == SelectSeq(tag_seq, LAMBDA t : t \in S)

OrderedKids(S) == [i \in 1..Len(TagSet(S)) |-> OxmlElement(TagSet(S)[i])]

ParsedCellsWithOthers ==
    { Elm("w:tc", NoAttrs, << Elm("w:tcPr", NoAttrs, OrderedKids(S)), OxmlElement("w:p") >>) :
        S \in SUBSET OtherTags }

(***************************************************************************)
(* Inputs                                                                  *)
(***************************************************************************)
Offsets == { 0, 317, 318 }

Lengths == { t * EMUS_PER_TWIP + r : t \in (-1)..MaxTwips, r \in Offsets }

WidthValues == { EmuValue(n) : n \in Lengths } \cup { NoneValue, HugeValue }

MergeValues == { "None", "continue", "restart" }

StrArg(s) == [kind |-> "str", n |-> 0, s |-> s]

IntArg(n) == [kind |-> "int", n |-> n, s |-> ""]

\* for a get_or_add call, arg records whether the child was absent
BoolArg(b) == [kind |-> "bool", n |-> IF b THEN 1 ELSE 0, s |-> ""]

(***************************************************************************)
(* Operations on the cell                                                  *)
(***************************************************************************)
TcPrIdx == find(tc, "w:tcPr")

TcPr == tc.kids[TcPrIdx]

Called(name, a, r) == op' = name /\ arg' = a /\ raised' = r

\* tc.width = value
WidthWrite(value) ==
    /\ tc' = CT_Tc_width_set(tc, value).elm
    /\ Called("width", value, CT_Tc_width_set(tc, value).raised)
    /\ UNCHANGED <<tbl, nextId>>

\* tc.clear_content()
ClearContent ==
    /\ tc' = clear_content(tc)
    /\ Called("clear_content", NoArg, FALSE)
    /\ UNCHANGED <<tbl, nextId>>

\* tc.add_p()
AddP ==
    /\ Len(Content(tc)) < MaxContent
    /\ tc' = add_p(tc)
    /\ Called("add_p", NoArg, FALSE)
    /\ UNCHANGED <<tbl, nextId>>

\* tc.add_tbl()
AddTbl ==
    /\ Len(Content(tc)) < MaxContent
    /\ tc' = add_tbl(tc)
    /\ Called("add_tbl", NoArg, FALSE)
    /\ UNCHANGED <<tbl, nextId>>

\* tc.get_or_add_tcPr()
GetOrAddTcPr ==
    /\ tc' = get_or_add_tcPr(tc)
    /\ Called("get_or_add_tcPr", BoolArg(TcPrIdx = 0), FALSE)
    /\ UNCHANGED <<tbl, nextId>>

\* tc.tcPr.get_or_add_tcW()
GetOrAddTcW ==
    /\ TcPrIdx # 0
    /\ tc' = ReplaceKid(tc, TcPrIdx, get_or_add_tcW(TcPr))
    /\ Called("get_or_add_tcW", BoolArg(find(TcPr, "w:tcW") = 0), FALSE)
    /\ UNCHANGED <<tbl, nextId>>

\* tc.tcPr.get_or_add_gridSpan()
GetOrAddGridSpan ==
    /\ TcPrIdx # 0
    /\ tc' = ReplaceKid(tc, TcPrIdx, get_or_add_gridSpan(TcPr))
    /\ Called("get_or_add_gridSpan", BoolArg(find(TcPr, "w:gridSpan") = 0), FALSE)
    /\ UNCHANGED <<tbl, nextId>>

\* tc.tcPr.get_or_add_vMerge()
GetOrAddVMerge ==
    /\ TcPrIdx # 0
    /\ tc' = ReplaceKid(tc, TcPrIdx, get_or_add_vMerge(TcPr))
    /\ Called("get_or_add_vMerge", BoolArg(find(TcPr, "w:vMerge") = 0), FALSE)
    /\ UNCHANGED <<tbl, nextId>>

\* tc.tcPr._remove_tcW(), _remove_gridSpan(), _remove_vMerge()
RemoveChild(tag) ==
    /\ TcPrIdx # 0
    /\ tc' = ReplaceKid(tc, TcPrIdx, remove_all(TcPr, tag))
    /\ Called("remove", StrArg(tag), FALSE)
    /\ UNCHANGED <<tbl, nextId>>

\* tc.tcPr.vMerge.val = value
SetVMergeVal(value) ==
    /\ TcPrIdx # 0
    /\ find(TcPr, "w:vMerge") # 0
    /\ tc' = ReplaceKid(tc, TcPrIdx,
                ReplaceKid(TcPr, find(TcPr, "w:vMerge"),
                    CT_VMerge_val_set(TcPr.kids[find(TcPr, "w:vMerge")], value)))
    /\ Called("vMerge.val", StrArg(value), FALSE)
    /\ UNCHANGED <<tbl, nextId>>

(***************************************************************************)
(* SpecCell: a cell read from a document, edited through CT_Tc             *)
(***************************************************************************)
InitCell ==
    /\ tc \in ParsedCells
    /\ tbl = CT_Tbl_new
    /\ nextId = 1
    /\ op = "parse" /\ arg = NoArg /\ raised = FALSE

NextCell ==
    \/ \E value \in WidthValues : WidthWrite(value)
    \/ ClearContent
    \/ AddP
    \/ AddTbl
    \/ GetOrAddTcPr
    \/ GetOrAddVMerge
    \/ RemoveChild("w:vMerge")
    \/ \E value \in MergeValues : SetVMergeVal(value)

SpecCell == InitCell /\ [][NextCell]_vars

(***************************************************************************)
(* SpecTcPr: lazy insertion and removal of the children of a w:tcPr        *)
(***************************************************************************)
InitTcPr ==
    /\ tc \in ParsedCellsWithOthers
    /\ tbl = CT_Tbl_new
    /\ nextId = 1
    /\ op = "parse" /\ arg = NoArg /\ raised = FALSE

NextTcPr ==
    \/ GetOrAddTcW
    \/ GetOrAddGridSpan
    \/ GetOrAddVMerge
    \/ \E tag \in {"w:tcW", "w:gridSpan", "w:vMerge"} : RemoveChild(tag)

SpecTcPr == InitTcPr /\ [][NextTcPr]_vars

(***************************************************************************)
(* CT_Row and CT_Tbl                                                       *)
(***************************************************************************)
WithId(e, i) == [e EXCEPT !.id = i]

tr_lst(t) == findall(t, "w:tr")

tc_lst(tr) == findall(tr, "w:tc")

\* list.index(x): the position (0-based) of the first item that is x;
\* elements compare by identity
index(lst, x) ==
    (CHOOSE i \in 1..Len(lst) :
        /\ lst[i].id = x.id
        /\ \A j \in 1..(i-1) : lst[j].id # x.id) - 1

\* the index among all the children of the table
tr_idx_among_children(t, tr) == index(t.kids, tr)

\* CT_Row.tr_idx of the row tr whose parent is t
tr_idx(t, tr) == index(tr_lst(t), tr)

\* CT_Tbl.iter_tcs: for tr in self.tr_lst: for tc in tr.tc_lst: yield tc
RECURSIVE iter_rows(_)
iter_rows(rows) ==
    IF rows = <<>> THEN <<>>
    ELSE tc_lst(Head(rows)) \o iter_rows(Tail(rows))

\* an iteration that leaves out the cells continuing a vertical merge
iter_tcs_skip_merged(t) ==
    SelectSeq(iter_rows(tr_lst(t)),
              LAMBDA c : find(c, "w:tcPr") = 0
                         \/ find(c.kids[find(c, "w:tcPr")], "w:vMerge") = 0
                         \/ HasAttr(c.kids[find(c, "w:tcPr")].kids[
                                find(c.kids[find(c, "w:tcPr")], "w:vMerge")], "val"))

iter_tcs(t) == iter_rows(tr_lst(t))

col_count(t) == Len(findall(t.kids[find(t, "w:tblGrid")], "w:gridCol"))

\* tr = ZeroOrMore('w:tr') and tc = ZeroOrMore('w:tc') declare no successors
add_tr(t, i) == insert_element_before(t, WithId(OxmlElement("w:tr"), i), <<>>)

add_tc(tr, i) == insert_element_before(tr, WithId(CT_Tc_new, i), <<>>)

\* lxml's parent.remove(child)
remove(e, i) == [e EXCEPT !.kids = RemoveAt(e.kids, i)]

(***************************************************************************)
(* Tables as they are read from a document                                 *)
(***************************************************************************)
\* a 2x2 grid: row 1 has row properties and one cell spanning both columns
\* that starts a vertical merge, row 2 has the continuation and a plain cell
ParsedTbl ==
    Elm("w:tbl", NoAttrs,
        << Elm("w:tblPr", NoAttrs,
               << Elm("w:tblW", [type |-> "auto", w |-> 0], <<>>) >>),
           Elm("w:tblGrid", NoAttrs,
               << OxmlElement("w:gridCol"), OxmlElement("w:gridCol") >>),
           WithId(Elm("w:tr", NoAttrs,
               << OxmlElement("w:trPr"),
                  WithId(Elm("w:tc", NoAttrs,
                      << Elm("w:tcPr", NoAttrs,
                             << Elm("w:gridSpan", [val |-> "2"], <<>>),
                                Elm("w:vMerge", [val |-> "restart"], <<>>) >>),
                         OxmlElement("w:p") >>), 2) >>), 1),
           WithId(Elm("w:tr", NoAttrs,
               << WithId(Elm("w:tc", NoAttrs,
                      << Elm("w:tcPr", NoAttrs,
                             << Elm("w:vMerge", NoAttrs, <<>>) >>),
                         OxmlElement("w:p") >>), 3) >>), 4) >>)

(***************************************************************************)
(* Operations on the table                                                 *)
(***************************************************************************)
RowPositions == { i \in 1..Len(tbl.kids) : tbl.kids[i].tag = "w:tr" }

\* tbl.add_tr()
AddTr ==
    /\ nextId <= MaxId
    /\ Len(tr_lst(tbl)) < MaxRows
    /\ tbl' = add_tr(tbl, nextId)
    /\ nextId' = nextId + 1
    /\ Called("add_tr", NoArg, FALSE)
    /\ UNCHANGED tc

\* tr.add_tc() on the row at child position i
AddTc(i) ==
    /\ nextId <= MaxId
    /\ Len(tc_lst(tbl.kids[i])) < MaxCells
    /\ tbl' = ReplaceKid(tbl, i, add_tc(tbl.kids[i], nextId))
    /\ nextId' = nextId + 1
    /\ Called("add_tc", IntArg(tbl.kids[i].id), FALSE)
    /\ UNCHANGED tc

\* tbl.remove(tr) of the row at child position i
RemoveTr(i) ==
    /\ tbl' = remove(tbl, i)
    /\ Called("remove_tr", IntArg(tbl.kids[i].id), FALSE)
    /\ UNCHANGED <<tc, nextId>>

(***************************************************************************)
(* SpecTbl: rows and cells of a table                                      *)
(***************************************************************************)
InitTbl ==
    /\ tc = CT_Tc_new
    /\ \/ tbl = CT_Tbl_new /\ nextId = 1
       \/ tbl = ParsedTbl /\ nextId = 5
    /\ op = "parse" /\ arg = NoArg /\ raised = FALSE

NextTbl ==
    \/ AddTr
    \/ \E i \in RowPositions : AddTc(i)
    \/ \E i \in RowPositions : RemoveTr(i)

SpecTbl == InitTbl /\ [][NextTbl]_vars

(***************************************************************************)
(* CT_TblPr                                                                *)
(***************************************************************************)
tblStyle_successors ==
    << "w:tblpPr", "w:tblOverlap", "w:bidiVisual", "w:tblStyleRowBandSize",
       "w:tblStyleColBandSize", "w:tblW", "w:jc", "w:tblCellSpacing",
       "w:tblInd", "w:tblBorders", "w:shd", "w:tblLayout", "w:tblCellMar",
       "w:tblLook", "w:tblCaption", "w:tblDescription", "w:tblPrChange" >>

tblLayout_successors ==
    << "w:tblLayout", "w:tblCellMar", "w:tblLook", "w:tblCaption",
       "w:tblDescription", "w:tblPrChange" >>

\* _add_tblLayout() without the test for an existing child
add_tblLayout(tblPr) ==
    insert_element_before(tblPr, OxmlElement("w:tblLayout"), tblLayout_successors)

get_or_add_tblLayout(tblPr) == get_or_add(tblPr, "w:tblLayout", tblLayout_successors)

\* CT_TblLayoutType.type = OptionalAttribute('w:type', ST_TblLayoutType):
\* no default, an absent attribute reads None
CT_TblLayoutType_type(e) == IF HasAttr(e, "type") THEN e.attrs.type ELSE "None"

CT_TblPr_autofit(tblPr) ==
    LET i == find(tblPr, "w:tblLayout")
    IN  IF i = 0 THEN TRUE
        ELSE IF CT_TblLayoutType_type(tblPr.kids[i]) = "fixed" THEN FALSE ELSE TRUE

CT_TblPr_autofit_set(tblPr, value) ==
    LET added == get_or_add_tblLayout(tblPr)
        i == find(added, "w:tblLayout")
    IN  ReplaceKid(added, i,
            SetAttr(added.kids[i], "type", IF value THEN "autofit" ELSE "fixed"))

\* a style value: None, a string, or a value that is not a string, which
\* the w:val string attribute rejects (ST_String.validate raises TypeError)
NoStyle == [kind |-> "None", n |-> 0, s |-> ""]
NotAString == [kind |-> "int", n |-> 1, s |-> ""]

\* CT_String.val is a RequiredAttribute
CT_TblPr_style(tblPr) ==
    LET i == find(tblPr, "w:tblStyle")
    IN  IF i = 0 THEN "None"
        ELSE IF ~HasAttr(tblPr.kids[i], "val") THEN "raises"
        ELSE tblPr.kids[i].attrs.val

\* _remove_tblStyle() runs first; _add_tblStyle(val=value) assigns val to the
\* new element before it inserts it, so a rejected value inserts nothing
CT_TblPr_style_set(tblPr, value) ==
    LET removed == remove_all(tblPr, "w:tblStyle")
    IN  IF value.kind = "None" THEN [elm |-> removed, raised |-> FALSE]
        ELSE IF value.kind # "str" THEN [elm |-> removed, raised |-> TRUE]
        ELSE [elm |-> insert_element_before(removed,
                        Elm("w:tblStyle", [val |-> value.s], <<>>),
                        tblStyle_successors),
              raised |-> FALSE]

(***************************************************************************)
(* SpecTblPr: the properties of a table                                    *)
(***************************************************************************)
\* children of w:tblPr this module declares no accessor for, in schema order
tblPr_seq ==
    << "w:tblStyle", "w:tblpPr", "w:tblOverlap", "w:bidiVisual",
       "w:tblStyleRowBandSize", "w:tblStyleColBandSize", "w:tblW", "w:jc",
       "w:tblCellSpacing", "w:tblInd", "w:tblBorders", "w:shd", "w:tblLayout",
       "w:tblCellMar", "w:tblLook", "w:tblCaption", "w:tblDescription",
       "w:tblPrChange" >>

OtherTblPrTags == { "w:bidiVisual", "w:jc", "w:tblLook" }

TblPrKids(S) ==
    LET tags == SelectSeq(tblPr_seq, LAMBDA t : t \in S \cup {"w:tblW"})
    IN  [i \in 1..Len(tags) |->
            IF tags[i] = "w:tblW"
            THEN Elm("w:tblW", [type |-> "auto", w |-> 0], <<>>)
            ELSE OxmlElement(tags[i])]

ParsedTbls ==
    { Elm("w:tbl", NoAttrs,
          << Elm("w:tblPr", NoAttrs, TblPrKids(S)), Elm("w:tblGrid", NoAttrs, <<>>) >>) :
        S \in SUBSET OtherTblPrTags }

StyleValues == { NoStyle, StrArg("TableGrid"), StrArg("LightShading"), NotAString }

TblPrIdx == find(tbl, "w:tblPr")

TblPr == tbl.kids[TblPrIdx]

\* tbl.tblPr.autofit = value
AutofitWrite(value) ==
    /\ tbl' = ReplaceKid(tbl, TblPrIdx, CT_TblPr_autofit_set(TblPr, value))
    /\ Called("autofit", BoolArg(value), FALSE)
    /\ UNCHANGED <<tc, nextId>>

\* tbl.tblPr.style = value
StyleWrite(value) ==
    /\ tbl' = ReplaceKid(tbl, TblPrIdx, CT_TblPr_style_set(TblPr, value).elm)
    /\ Called("style", value, CT_TblPr_style_set(TblPr, value).raised)
    /\ UNCHANGED <<tc, nextId>>

InitTblPr ==
    /\ tc = CT_Tc_new
    /\ tbl \in ParsedTbls
    /\ nextId = 1
    /\ op = "parse" /\ arg = NoArg /\ raised = FALSE

NextTblPr ==
    \/ \E value \in BOOLEAN : AutofitWrite(value)
    \/ \E value \in StyleValues : StyleWrite(value)

SpecTblPr == InitTblPr /\ [][NextTblPr]_vars

(***************************************************************************)
(* Properties of the cell properties and of the cell                       *)
(***************************************************************************)
\* position of a tag in the fixed schema sequence of w:tcPr
Pos(tag) == CHOOSE i \in 1..Len(tag_seq) : tag_seq[i] = tag

Count(e, tag) == Cardinality({ i \in 1..Len(e.kids) : e.kids[i].tag = tag })

SchemaOrdered(tcPr) ==
    \A i, j \in 1..Len(tcPr.kids) :
        i < j => Pos(tcPr.kids[i].tag) < Pos(tcPr.kids[j].tag)

\* the step added a child: the other children are kept, those before the
\* new child are earlier in the schema sequence and the one right after it
\* is the first present child that is later
LandsInSlot(old, new) ==
    \E p \in 1..Len(new.kids) :
        /\ old.kids = RemoveAt(new.kids, p)
        /\ \A i \in 1..(p-1) : Pos(new.kids[i].tag) < Pos(new.kids[p].tag)
        /\ \A i \in (p+1)..Len(new.kids) : Pos(new.kids[i].tag) > Pos(new.kids[p].tag)

AddedChild ==
    /\ op' \in {"get_or_add_tcW", "get_or_add_gridSpan", "get_or_add_vMerge"}
    /\ arg' = BoolArg(TRUE)

\* C1: whatever the order in which tcW, gridSpan and vMerge are lazily added
\* to a w:tcPr (empty, or holding other schema-ordered children), its
\* children are in the fixed schema order, and each added child lands right
\* before the first present later child and after every present earlier one.
C1_SchemaOrder ==
    /\ [](TcPrIdx # 0 => SchemaOrdered(TcPr))
    /\ [][AddedChild => LandsInSlot(TcPr, tc'.kids[TcPrIdx])]_vars

\* vMerge was added to a w:tcPr that already held a later child (tcBorders)
\* and earlier ones, gridSpan among them
C1_Witness ==
    /\ op = "get_or_add_vMerge" /\ arg = BoolArg(TRUE)
    /\ find(TcPr, "w:tcBorders") # 0
    /\ find(TcPr, "w:hMerge") # 0
    /\ find(TcPr, "w:gridSpan") # 0
    /\ find(TcPr, "w:tcW") # 0

TcW == TcPr.kids[find(TcPr, "w:tcW")]

Abs(n) == IF n < 0 THEN -n ELSE n

\* C2 as stated: a width written is read back unchanged, with type dxa.
C2_RoundTripExact ==
    (op = "width" /\ ~raised) =>
        /\ CT_Tc_width(tc) = Val(arg.n)
        /\ TcW.attrs.type = "dxa"

\* C2 amended: an accepted width W is read back as the nearest whole number
\* of twips (a multiple of 635 EMU at most 317 EMU away from W), hence as W
\* itself when W is a whole number of twips; the type is dxa.
C2_RoundTripTwips ==
    (op = "width" /\ ~raised) =>
        /\ CT_Tc_width(tc).k = "value"
        /\ CT_Tc_width(tc).v % EMUS_PER_TWIP = 0
        /\ Abs(CT_Tc_width(tc).v - arg.n) <= 317
        /\ (arg.n % EMUS_PER_TWIP = 0 => CT_Tc_width(tc) = Val(arg.n))
        /\ TcW.attrs.type = "dxa"

\* 318 EMU written, 635 EMU (one twip) read back
C2_Witness ==
    /\ op = "width" /\ ~raised
    /\ arg = EmuValue(318)
    /\ CT_Tc_width(tc) = Val(635)

\* C3: a write that raises leaves the tree as it was before the call.
C3_FailureAtomic == [][raised' => (tc' = tc /\ tbl' = tbl)]_vars

\* C6: the cell has at most one w:tcPr child and, when present, it is the
\* first child, before every content element.
C6_TcPrFirst ==
    /\ Count(tc, "w:tcPr") <= 1
    /\ (Count(tc, "w:tcPr") = 1 => tc.kids[1].tag = "w:tcPr")

\* w:tcPr was lazily created in a cell that holds two content elements
C6_Witness ==
    /\ op = "get_or_add_tcPr" /\ arg = BoolArg(TRUE)
    /\ Len(Content(tc)) = 2
    /\ tc.kids[1].tag = "w:tcPr"

TcPrOf(e) == IF find(e, "w:tcPr") = 0 THEN <<>> ELSE << e.kids[find(e, "w:tcPr")] >>

\* C7: clear_content leaves no content element, keeps the w:tcPr as it was
\* (so the width, grid span and vertical-merge reads are unchanged), and
\* one add_p afterwards gives a cell with exactly one content element.
C7_ClearContent ==
    /\ [][op' = "clear_content" =>
            /\ Content(tc') = <<>>
            /\ tc'.kids = TcPrOf(tc)
            /\ CT_Tc_width(tc') = CT_Tc_width(tc)
            /\ CT_Tc_grid_span(tc') = CT_Tc_grid_span(tc)
            /\ CT_Tc_vMerge(tc') = CT_Tc_vMerge(tc)]_vars
    /\ [][(op = "clear_content" /\ op' = "add_p") => Len(Content(tc')) = 1]_vars

\* a cleared cell that kept its properties: the width still reads 635 EMU
C7_Witness ==
    /\ op = "clear_content"
    /\ Content(tc) = <<>>
    /\ TcPrIdx # 0
    /\ CT_Tc_width(tc) = Val(635)
    /\ CT_Tc_grid_span(tc) = Val(2)

IsDxa ==
    /\ TcPrIdx # 0
    /\ find(TcPr, "w:tcW") # 0
    /\ HasAttr(TcW, "type")
    /\ TcW.attrs.type = "dxa"

\* C8: the width read gives an absolute length exactly when w:tcPr exists,
\* its w:tcW exists and the type is dxa; otherwise it gives None; it never
\* raises.
C8_WidthReadDxaOnly ==
    /\ IsDxa <=> CT_Tc_width(tc).k = "value"
    /\ ~IsDxa => CT_Tc_width(tc) = None

VMergeIdx == IF TcPrIdx = 0 THEN 0 ELSE find(TcPr, "w:vMerge")

\* C9: the vertical-merge read gives None when w:tcPr or its w:vMerge is
\* absent, continue when w:vMerge has no val attribute, and the val
\* attribute when it is there; None and continue are never confused.
C9_VMergeDefault ==
    /\ VMergeIdx = 0 => CT_Tc_vMerge(tc) = "None"
    /\ VMergeIdx # 0 =>
          /\ CT_Tc_vMerge(tc) \in {"continue", "restart"}
          /\ ~HasAttr(TcPr.kids[VMergeIdx], "val") => CT_Tc_vMerge(tc) = "continue"
          /\ HasAttr(TcPr.kids[VMergeIdx], "val") =>
                CT_Tc_vMerge(tc) = TcPr.kids[VMergeIdx].attrs.val

\* a w:vMerge just created, without a val attribute, reads continue
C9_Witness ==
    /\ op = "get_or_add_vMerge" /\ arg = BoolArg(TRUE)
    /\ VMergeIdx # 0
    /\ ~HasAttr(TcPr.kids[VMergeIdx], "val")
    /\ CT_Tc_vMerge(tc) = "continue"

(***************************************************************************)
(* Properties of the table                                                 *)
(***************************************************************************)
\* number of w:tr children of the table before child position p
RowsBefore(t, p) == Cardinality({ q \in 1..(p-1) : t.kids[q].tag = "w:tr" })

RowPos(t) == { p \in 1..Len(t.kids) : t.kids[p].tag = "w:tr" }

CellPos(tr) == { q \in 1..Len(tr.kids) : tr.kids[q].tag = "w:tc" }

\* the row with identity i is a child of the table
InTable(t, i) == \E p \in RowPos(t) : t.kids[p].id = i

RowWithId(t, i) == t.kids[CHOOSE p \in RowPos(t) : t.kids[p].id = i]

\* C4: every row of the table reports as its index its current rank among
\* the row children (w:tblPr and w:tblGrid are not counted); a row keeps
\* its index when a later row is removed and reports one less when an
\* earlier row is removed.
C4_RowIndex ==
    /\ [](\A p \in RowPos(tbl) : tr_idx(tbl, tbl.kids[p]) = RowsBefore(tbl, p))
    /\ [][op' = "remove_tr" =>
            \A p \in RowPos(tbl) :
                InTable(tbl', tbl.kids[p].id) =>
                    tr_idx(tbl', RowWithId(tbl', tbl.kids[p].id)) =
                        tr_idx(tbl, tbl.kids[p])
                          - (IF tr_idx(tbl, RowWithId(tbl, arg'.n)) < tr_idx(tbl, tbl.kids[p])
                             THEN 1 ELSE 0)]_vars

\* rows 1, 2, 3 were appended to a new table and row 1 was removed: row 2,
\* which reported 1, reports 0
C4_Witness ==
    /\ op = "remove_tr" /\ arg = IntArg(1)
    /\ Len(tr_lst(tbl)) = 2
    /\ tr_lst(tbl)[1].id = 2
    /\ tr_lst(tbl)[2].id = 3
    /\ tr_idx(tbl, tr_lst(tbl)[1]) = 0

\* child positions <<row, cell>> of the cell yielded at place k of the iteration
Places(t) ==
    { pq \in (1..Len(t.kids)) \X (1..(MaxCells + 2)) :
        /\ pq[1] \in RowPos(t)
        /\ pq[2] \in CellPos(t.kids[pq[1]]) }

Before(a, b) == a[1] < b[1] \/ (a[1] = b[1] /\ a[2] < b[2])

\* C5: the iteration yields every w:tc of every row exactly once, in
\* row-major order, merged cells included; R rows of C cells yield R*C cells.
C5_IterTcs ==
    LET cells == iter_tcs(tbl)
    IN  /\ Len(cells) = Cardinality(Places(tbl))
        /\ \A pq \in Places(tbl) :
              LET k == 1 + Cardinality({ x \in Places(tbl) : Before(x, pq) })
              IN  cells[k] = tbl.kids[pq[1]].kids[pq[2]]
        /\ \A i, j \in 1..Len(cells) : i # j => cells[i].id # cells[j].id
        /\ \A c \in 0..(MaxCells + 1) :
              (\A p \in RowPos(tbl) : Cardinality(CellPos(tbl.kids[p])) = c)
                  => Len(cells) = Cardinality(RowPos(tbl)) * c

\* two rows of two cells, among them the cell that spans two columns and
\* starts a vertical merge and the cell that continues it: four cells
C5_Witness ==
    /\ Len(tr_lst(tbl)) = 2
    /\ \A p \in RowPos(tbl) : Cardinality(CellPos(tbl.kids[p])) = 2
    /\ Len(iter_tcs(tbl)) = 4
    /\ \E k \in 1..4 : CT_Tc_vMerge(iter_tcs(tbl)[k]) = "restart"
                       /\ CT_Tc_grid_span(iter_tcs(tbl)[k]) = Val(2)
    /\ \E k \in 1..4 : CT_Tc_vMerge(iter_tcs(tbl)[k]) = "continue"

TblPrPos(tag) == CHOOSE i \in 1..Len(tblPr_seq) : tblPr_seq[i] = tag

\* C10: w:tblPr holds at most one w:tblLayout and at most one w:tblStyle,
\* each at its schema slot (w:tblStyle before w:tblW, w:tblLayout after
\* it); a new table reads autofit; an autofit read gives the value last
\* written; writing autofit = True a second time changes nothing.
C10_TblPr ==
    /\ [](/\ Count(TblPr, "w:tblLayout") <= 1
          /\ Count(TblPr, "w:tblStyle") <= 1
          /\ \A i, j \in 1..Len(TblPr.kids) :
                i < j => TblPrPos(TblPr.kids[i].tag) < TblPrPos(TblPr.kids[j].tag)
          /\ (tbl = CT_Tbl_new => CT_TblPr_autofit(TblPr))
          /\ (op = "autofit" => CT_TblPr_autofit(TblPr) = (arg.n = 1)))
    /\ [][(op = "autofit" /\ arg = BoolArg(TRUE) /\ op' = "autofit" /\ arg' = BoolArg(TRUE))
            => tbl' = tbl]_vars

\* autofit = True was written to a table that has a style: one layout
\* child, after w:tblW, and the style before w:tblW
C10_Witness ==
    /\ op = "autofit" /\ arg = BoolArg(TRUE)
    /\ Count(TblPr, "w:tblLayout") = 1
    /\ Count(TblPr, "w:tblStyle") = 1
    /\ find(TblPr, "w:tblStyle") < find(TblPr, "w:tblW")
    /\ find(TblPr, "w:tblW") < find(TblPr, "w:tblLayout")
    /\ CT_TblPr_autofit(TblPr)

====
